---------------------------- MODULE Spec2Model ----------------------------
(***************************************************************************)
(* Temporal aggregation of CustomVideoObjectDetection.detectObjectsFromVideo *)
(* (src/imageai/Detection/Custom/__init__.py).  One scan of one video is    *)
(* modelled: the frame loop, the detection-timeout cutoff, the frame        *)
(* history and the per-frame / per-second / per-minute / end-of-video       *)
(* callbacks.  A callback is modelled by the record of its invocation       *)
(* (name and argument tuple) appended to `calls`.                           *)
(*                                                                         *)
(* Input domain: frames_per_second >= 1 (a video file with usable fps       *)
(* metadata), frame_detection_interval >= 1, detection_timeout None         *)
(* (written 0, which Python treats the same way) or a positive integer.     *)
(* Drawing on frames and writing the output video are pixel I/O and are     *)
(* not modelled; a frame buffer is the pair (frame number, annotated?).     *)
(***************************************************************************)
EXTENDS Integers, Sequences, FiniteSets, TLC

\* ---------------------------------------------------------------- bounds
MaxFps == 2
MaxInterval == 2
MaxTimeout == 2
MaxFrames == 4
MinuteFrames == 121
MaxBoxes == 3
MaxCoord == 3

\* ------------------------------------------------------ program constants
SecondsPerMinute == 60

\* Labels a detection can carry and the results one detector call can give.
Labels == {"a", "b"}

Item(l) == [name |-> l]

DetectorOutputs ==
    { <<>>, <<Item("a")>>, <<Item("b"), Item("a"), Item("a")>> }

\* One call of self.__detector.detectObjectsFromImage: it raises, or it
\* returns (drawn frame, output_objects_array).
DetectorOutcomes ==
    { [raised |-> TRUE, objects |-> <<>>] } \cup
    { [raised |-> FALSE, objects |-> o] : o \in DetectorOutputs }

\* Periodic videos used for the long (minute) scans.
DetectorScripts ==
    { << [raised |-> FALSE, objects |-> <<Item("a")>>],
         [raised |-> FALSE, objects |-> <<Item("b"), Item("a"), Item("a")>>],
         [raised |-> TRUE,  objects |-> <<>>] >>,
      << [raised |-> FALSE, objects |-> <<Item("b"), Item("a"), Item("a")>>],
         [raised |-> FALSE, objects |-> <<>>],
         [raised |-> FALSE, objects |-> <<Item("a")>>],
         [raised |-> FALSE, objects |-> <<Item("a")>>],
         [raised |-> FALSE, objects |-> <<Item("a")>>],
         [raised |-> FALSE, objects |-> <<Item("a")>>],
         [raised |-> FALSE, objects |-> <<Item("a")>>] >> }

VARIABLES
    frames_per_second,          \* int(input_video.get(5))
    frame_detection_interval,
    performance_mode,
    per_frame_function,         \* TRUE iff the caller supplied the callback
    per_second_function,
    per_minute_function,
    video_complete_function,
    return_detected_frame,
    detection_timeout,          \* 0 stands for None
    source_frames,              \* frames input_video.read() can deliver
    detector_script,            \* <<>>: any outcome; else outcomes by frame, cyclic
    n_frame,
    detection_timeout_count,
    output_frames_dict,
    output_frames_count_dict,
    detected_frame,
    detect_calls,               \* frames on which the detector was called
    calls,                      \* callback invocations, in order
    failed_frames,              \* frames whose detector call raised
    stopped_by,                 \* "none", "end_of_source", "timeout"
    pc,                         \* "scanning", "loop_exit", "done", "raised";
                                \* "idle" when no scan is modelled
    \* One call of a box post-processing function of CustomDetectionUtils
    boxes,                      \* the caller's BoundBox list, mutated in place
    boxes_in,                   \* the list as it was when the call was made
    region_of_interest,         \* <<>> stands for None
    nms_thresh,
    labels,
    thresh,
    v_result,                   \* what get_boxes returned
    ipc,                        \* "call", "returned", "raised"; "idle"
    \* Calls of detectObjectsFromImage on one loaded CustomObjectDetection
    self_object_threshold,      \* self.__object_threshold
    self_nms_threshold,         \* self.__nms_threshold
    threads,                    \* by caller: arguments, locals, position
    \* One call of decode_netout followed by correct_yolo_boxes
    netout,                     \* the caller's array (one scale of the output)
    netout_in,                  \* the array as it was when the call was made
    decode_args                 \* anchors, sizes, whether reshape gives a view

detectVars == << self_object_threshold, self_nms_threshold, threads >>

decodeVars == << netout, netout_in, decode_args >>

imageVars == << boxes, boxes_in, region_of_interest, nms_thresh, labels,
                thresh, v_result, ipc, detectVars, decodeVars >>

config == << frames_per_second, frame_detection_interval, performance_mode,
             per_frame_function, per_second_function, per_minute_function,
             video_complete_function, return_detected_frame,
             detection_timeout, source_frames, detector_script >>

vars == << frames_per_second, frame_detection_interval, performance_mode,
           per_frame_function, per_second_function, per_minute_function,
           video_complete_function, return_detected_frame,
           detection_timeout, source_frames, detector_script,
           n_frame, detection_timeout_count, output_frames_dict,
           output_frames_count_dict, detected_frame, detect_calls, calls,
           failed_frames, stopped_by, pc,
           boxes, boxes_in, region_of_interest, nms_thresh, labels,
           thresh, v_result, ipc,
           self_object_threshold, self_nms_threshold, threads,
           netout, netout_in, decode_args >>

\* ------------------------------------------------------------ pure helpers

\* `for eachItem in output_objects_array: count[eachItem["name"]] += 1`
RECURSIVE CountObjects(_)
CountObjects(arr) ==
    IF arr = <<>> THEN <<>>
    ELSE LET front == CountObjects(SubSeq(arr, 1, Len(arr) - 1))
             nm    == arr[Len(arr)].name
         IN  IF nm \in DOMAIN front
             THEN [front EXCEPT ![nm] = @ + 1]
             ELSE [l \in (DOMAIN front) \cup {nm} |->
                      IF l = nm THEN 1 ELSE front[l]]

\* `for eachItem in eachCountingDict: counting[eachItem] += eachCountingDict[eachItem]`
AddCountingDict(counting, eachCountingDict) ==
    [l \in (DOMAIN counting) \cup (DOMAIN eachCountingDict) |->
        (IF l \in DOMAIN counting THEN counting[l] ELSE 0)
      + (IF l \in DOMAIN eachCountingDict THEN eachCountingDict[l] ELSE 0)]

\* `for eachCountingDict in counting_array: ...`
\* The dictionaries are added in the order of the loop; the sum is
\* evaluated by halves, which gives the same dictionary and keeps the
\* evaluation shallow on minute-long windows.
RECURSIVE SumCounting(_)
SumCounting(counting_array) ==
    IF counting_array = <<>> THEN <<>>
    ELSE IF Len(counting_array) = 1
    THEN AddCountingDict(<<>>, counting_array[1])
    ELSE LET h == Len(counting_array) \div 2 IN
         AddCountingDict(
             SumCounting(SubSeq(counting_array, 1, h)),
             SumCounting(SubSeq(counting_array, h + 1, Len(counting_array))))

\* Variant: the `if idx >= (n - size)` filter is missing
MutWindowFrames(n, size) == [k \in 1..n |-> k]

\* `for idx in range(n): if idx >= (n - size): append(d[idx + 1])`
\* The frame numbers idx + 1 selected, in the order of the loop.
WindowFrames(n, size) ==
    LET idxs == [i \in 1..n |-> i - 1]
        keep(idx) == idx >= (n - size)
        sel  == SelectSeq(idxs, keep)
    IN  [k \in 1..Len(sel) |-> sel[k] + 1]

WindowOf(dict, n, size) ==
    LET fr == WindowFrames(n, size) IN [k \in 1..Len(fr) |-> dict[fr[k]]]

\* `int(counting[item] / size)` for the non-negative sums of the scan
WindowDivisor(size) == size

\* Variant: the averaging loop is missing
MutAverageCounting(counting, size) == counting

AverageCounting(counting, size) ==
    [l \in DOMAIN counting |-> counting[l] \div WindowDivisor(size)]

\* `counting[item] / n_frame`: Python true division, kept as the quotient
\* num / den
TrueDiv(a, b) == [num |-> a, den |-> b]

\* Variant: the video total is divided by the window size
MutVideoDivisor(n) == frames_per_second

VideoDivisor(n) == n

VideoAverage(counting, n) ==
    [l \in DOMAIN counting |-> TrueDiv(counting[l], VideoDivisor(n))]

\* Variant: detection is attempted on every frame
MutDetectionDue(n) == TRUE

\* `n_frame == 1 or n_frame % frame_detection_interval == 0`
DetectionDue(n) == n = 1 \/ n % frame_detection_interval = 0

\* Variant: the `n_frame != 1` test is missing
MutOnTheSecond(n) == n % frames_per_second = 0

\* `n_frame != 1 and n_frame % frames_per_second == 0`
OnTheSecond(n) == n # 1 /\ n % frames_per_second = 0

\* Variant: the minute is counted in frames, not in seconds
MutOnTheMinute(n) == n # 1 /\ n % SecondsPerMinute = 0

\* `n_frame != 1 and n_frame % (frames_per_second * 60) == 0`
OnTheMinute(n) == n # 1 /\ n % (frames_per_second * SecondsPerMinute) = 0

\* Outcomes the detector can produce on frame n
OutcomesAt(n) ==
    IF detector_script = <<>> THEN DetectorOutcomes
    ELSE { detector_script[((n - 1) % Len(detector_script)) + 1] }

\* frame.copy(), and the drawn frame a successful detection returns
RawFrame(n) == [frame |-> n, annotated |-> FALSE]
DrawnFrame(n) == [frame |-> n, annotated |-> TRUE]

\* ------------------------------------------------------------ callbacks

PerFrameArgs(n, arr, cnt, buf) ==
    IF return_detected_frame THEN <<n, arr, cnt, buf>> ELSE <<n, arr, cnt>>

\* Variant: the callback is not restricted to detection frames
MutPerFrameCalls(n, arr, cnt, buf) ==
    IF per_frame_function
    THEN << [fn |-> "per_frame_function", at |-> n,
             args |-> PerFrameArgs(n, arr, cnt, buf)] >>
    ELSE <<>>

PerFrameCalls(n, arr, cnt, buf) ==
    IF per_frame_function /\ DetectionDue(n)
    THEN << [fn |-> "per_frame_function", at |-> n,
             args |-> PerFrameArgs(n, arr, cnt, buf)] >>
    ELSE <<>>

WindowArgs(n, size, fdict, cdict, buf) ==
    LET object_array   == WindowOf(fdict, n, size)
        counting_array == WindowOf(cdict, n, size)
        counting       == AverageCounting(SumCounting(counting_array), size)
    IN  IF return_detected_frame
        THEN << n \div size, object_array, counting_array, counting, buf >>
        ELSE << n \div size, object_array, counting_array, counting >>

PerSecondCalls(n, fdict, cdict, buf) ==
    IF per_second_function /\ OnTheSecond(n)
    THEN << [fn |-> "per_second_function", at |-> n,
             args |-> WindowArgs(n, frames_per_second, fdict, cdict, buf)] >>
    ELSE <<>>

PerMinuteCalls(n, fdict, cdict, buf) ==
    IF per_minute_function /\ OnTheMinute(n)
    THEN << [fn |-> "per_minute_function", at |-> n,
             args |-> WindowArgs(n, frames_per_second * SecondsPerMinute,
                                 fdict, cdict, buf)] >>
    ELSE <<>>

\* Variant: the per-minute callback is called before the other two
MutFrameCalls(n, arr, cnt, buf, fdict, cdict) ==
    PerMinuteCalls(n, fdict, cdict, buf)
        \o PerFrameCalls(n, arr, cnt, buf)
        \o PerSecondCalls(n, fdict, cdict, buf)

\* The callbacks of frame n in the order of the three `if` blocks that
\* follow the storing of the frame
FrameCalls(n, arr, cnt, buf, fdict, cdict) ==
    PerFrameCalls(n, arr, cnt, buf)
        \o PerSecondCalls(n, fdict, cdict, buf)
        \o PerMinuteCalls(n, fdict, cdict, buf)

\* ------------------------------------------------------------ the scan

TypeConfig(fpsSet, intervalSet, timeoutSet, framesSet, scriptSet) ==
    /\ frames_per_second \in fpsSet
    /\ frame_detection_interval \in intervalSet
    /\ performance_mode \in BOOLEAN
    /\ per_frame_function \in BOOLEAN
    /\ per_second_function \in BOOLEAN
    /\ per_minute_function \in BOOLEAN
    /\ video_complete_function \in BOOLEAN
    /\ return_detected_frame \in BOOLEAN
    /\ detection_timeout \in timeoutSet
    /\ source_frames \in framesSet
    /\ detector_script \in scriptSet

\* State on entry to the frame loop
ScanStart ==
    /\ n_frame = 0
    /\ detection_timeout_count = 0
    /\ output_frames_dict = <<>>
    /\ output_frames_count_dict = <<>>
    /\ detected_frame = RawFrame(0)
    /\ detect_calls = <<>>
    /\ calls = <<>>
    /\ failed_frames = {}
    /\ stopped_by = "none"
    /\ pc = "scanning"

\* No call of detectObjectsFromImage is in progress
NoDetectCall ==
    /\ self_object_threshold = 0
    /\ self_nms_threshold = 0
    /\ threads = <<>>

\* No box post-processing call is in progress
NoBoxCall ==
    /\ boxes = <<>>
    /\ boxes_in = <<>>
    /\ region_of_interest = <<>>
    /\ nms_thresh = 0
    /\ labels = <<>>
    /\ thresh = 0
    /\ v_result = <<>>
    /\ ipc = "idle"

\* No call of decode_netout is in progress
NoDecodeCall ==
    /\ netout = <<>>
    /\ netout_in = <<>>
    /\ decode_args = <<>>

ImageIdle == NoBoxCall /\ NoDetectCall /\ NoDecodeCall

Init ==
    /\ TypeConfig(1..MaxFps, 1..MaxInterval, 0..MaxTimeout, 0..MaxFrames, {<<>>})
    /\ ScanStart
    /\ ImageIdle

\* A one-minute-plus video with a periodic content
MinuteInit ==
    /\ TypeConfig(1..MaxFps, {1, MaxInterval},
                  {0, MaxTimeout, SecondsPerMinute}, {MinuteFrames},
                  DetectorScripts)
    /\ ScanStart
    /\ ImageIdle

\* `ret, frame = input_video.read()` with ret false: `break`
EndOfSource ==
    /\ pc = "scanning"
    /\ n_frame >= source_frames
    /\ pc' = "loop_exit"
    /\ stopped_by' = "end_of_source"
    /\ UNCHANGED << imageVars, config, n_frame, detection_timeout_count,
                    output_frames_dict, output_frames_count_dict,
                    detected_frame, detect_calls, calls, failed_frames >>

\* One iteration of the loop in performance mode
PerformanceFrame ==
    /\ pc = "scanning"
    /\ n_frame < source_frames
    /\ performance_mode
    /\ LET n == n_frame + 1 IN
       /\ n_frame' = n
       /\ IF DetectionDue(n)
          THEN \E out \in OutcomesAt(n) :
                 /\ detect_calls' = Append(detect_calls, n)
                 /\ failed_frames' =
                        IF out.raised THEN failed_frames \cup {n}
                        ELSE failed_frames
                 /\ detected_frame' =
                        IF out.raised THEN RawFrame(n) ELSE DrawnFrame(n)
          ELSE /\ detect_calls' = detect_calls
               /\ failed_frames' = failed_frames
               /\ detected_frame' = RawFrame(n)
    /\ UNCHANGED << imageVars, config, detection_timeout_count, output_frames_dict,
                    output_frames_count_dict, calls, stopped_by, pc >>

\* detection_timeout_count after the check made on frame n
TimeoutCountAt(n) ==
    IF detection_timeout # 0 /\ n % frames_per_second = 0
    THEN detection_timeout_count + 1
    ELSE detection_timeout_count

\* `if detection_timeout_count >= detection_timeout: break`
TimeoutReached(n) ==
    detection_timeout # 0 /\ TimeoutCountAt(n) >= detection_timeout

\* Variant: the `break` is missing, the frame is skipped
MutTimeoutBreak ==
    /\ pc = "scanning"
    /\ n_frame < source_frames
    /\ ~performance_mode
    /\ TimeoutReached(n_frame + 1)
    /\ n_frame' = n_frame + 1
    /\ detection_timeout_count' = TimeoutCountAt(n_frame + 1)
    /\ detected_frame' = RawFrame(n_frame + 1)
    /\ UNCHANGED << imageVars, config, output_frames_dict, output_frames_count_dict,
                    detect_calls, calls, failed_frames, stopped_by, pc >>

\* A frame is read and the timeout check breaks out of the loop
TimeoutBreak ==
    /\ pc = "scanning"
    /\ n_frame < source_frames
    /\ ~performance_mode
    /\ TimeoutReached(n_frame + 1)
    /\ n_frame' = n_frame + 1
    /\ detection_timeout_count' = TimeoutCountAt(n_frame + 1)
    /\ detected_frame' = RawFrame(n_frame + 1)
    /\ pc' = "loop_exit"
    /\ stopped_by' = "timeout"
    /\ UNCHANGED << imageVars, config, output_frames_dict, output_frames_count_dict,
                    detect_calls, calls, failed_frames >>

\* Variant: output_objects_array is not reset to [] before the detection
MutObjectsOnFailure == <<Item("a")>>

\* What a failed detection leaves in output_objects_array
ObjectsOnFailure == <<>>

\* Variant: the history is rebound to a fresh dict on every frame
MutStoreFrame(dict, n, value) == [i \in {n} |-> value]

\* `output_frames_dict[n_frame] = output_objects_array`
StoreFrame(dict, n, value) ==
    [i \in (DOMAIN dict) \cup {n} |-> IF i = n THEN value ELSE dict[i]]

\* One full iteration of the loop outside performance mode
ProcessFrame ==
    /\ pc = "scanning"
    /\ n_frame < source_frames
    /\ ~performance_mode
    /\ ~TimeoutReached(n_frame + 1)
    /\ LET n == n_frame + 1 IN
       \E out \in (IF DetectionDue(n) THEN OutcomesAt(n)
                   ELSE { [raised |-> TRUE, objects |-> <<>>] }) :
         LET ran   == DetectionDue(n)
             output_objects_array ==
                 IF ran /\ ~out.raised THEN out.objects ELSE ObjectsOnFailure
             output_objects_count == CountObjects(output_objects_array)
             buf   == IF ran /\ ~out.raised THEN DrawnFrame(n) ELSE RawFrame(n)
             fdict == StoreFrame(output_frames_dict, n, output_objects_array)
             cdict == StoreFrame(output_frames_count_dict, n,
                                 output_objects_count)
         IN
         /\ n_frame' = n
         /\ detection_timeout_count' = TimeoutCountAt(n)
         /\ detect_calls' = IF ran THEN Append(detect_calls, n) ELSE detect_calls
         /\ failed_frames' = IF ran /\ out.raised THEN failed_frames \cup {n}
                              ELSE failed_frames
         /\ output_frames_dict' = fdict
         /\ output_frames_count_dict' = cdict
         /\ detected_frame' = buf
         /\ calls' = calls \o FrameCalls(n, output_objects_array,
                                         output_objects_count, buf,
                                         fdict, cdict)
    /\ UNCHANGED << imageVars, config, stopped_by, pc >>

\* Frames the end-of-video loop reads from the history: range(n_frame)
VideoFrames(n) == [k \in 1..n |-> k]

\* After the loop: video_complete_function, then release
Complete ==
    /\ pc = "loop_exit"
    /\ IF video_complete_function
       THEN IF \A k \in 1..n_frame :
                   /\ VideoFrames(n_frame)[k] \in DOMAIN output_frames_dict
                   /\ VideoFrames(n_frame)[k] \in DOMAIN output_frames_count_dict
            THEN LET fr == VideoFrames(n_frame)
                     object_array   == [k \in 1..Len(fr) |-> output_frames_dict[fr[k]]]
                     counting_array == [k \in 1..Len(fr) |-> output_frames_count_dict[fr[k]]]
                     counting == VideoAverage(SumCounting(counting_array), n_frame)
                 IN  /\ calls' = Append(calls,
                            [fn |-> "video_complete_function", at |-> n_frame,
                             args |-> <<object_array, counting_array, counting>>])
                     /\ pc' = "done"
            ELSE \* KeyError from output_frames_dict[idx + 1]
                 /\ calls' = calls
                 /\ pc' = "raised"
       ELSE /\ calls' = calls
            /\ pc' = "done"
    /\ UNCHANGED << imageVars, config, n_frame, detection_timeout_count,
                    output_frames_dict, output_frames_count_dict,
                    detected_frame, detect_calls, failed_frames, stopped_by >>

Next ==
    \/ EndOfSource
    \/ PerformanceFrame
    \/ TimeoutBreak
    \/ ProcessFrame
    \/ Complete

Spec == Init /\ [][Next]_vars

SpecMinute == MinuteInit /\ [][Next]_vars


\* ------------------------------------------------- box post-processing
\* Real numbers (scores, thresholds, percentages) are kept in hundredths:
\* the score 0.9 is 90, the percentage 90.0 is 9000.  Pixel coordinates
\* are the integers correct_yolo_boxes leaves in the boxes.

\* No video scan is modelled
VideoIdle ==
    /\ frames_per_second = 1
    /\ frame_detection_interval = 1
    /\ performance_mode = FALSE
    /\ per_frame_function = FALSE
    /\ per_second_function = FALSE
    /\ per_minute_function = FALSE
    /\ video_complete_function = FALSE
    /\ return_detected_frame = FALSE
    /\ detection_timeout = 0
    /\ source_frames = 0
    /\ detector_script = <<>>
    /\ n_frame = 0
    /\ detection_timeout_count = 0
    /\ output_frames_dict = <<>>
    /\ output_frames_count_dict = <<>>
    /\ detected_frame = RawFrame(0)
    /\ detect_calls = <<>>
    /\ calls = <<>>
    /\ failed_frames = {}
    /\ stopped_by = "none"
    /\ pc = "idle"

videoVars == << config, n_frame, detection_timeout_count, output_frames_dict,
                output_frames_count_dict, detected_frame, detect_calls, calls,
                failed_frames, stopped_by, pc >>

\* BoundBox(xmin, ymin, xmax, ymax, objness, classes)
BoundBox(xmin, ymin, xmax, ymax, objness, classes) ==
    [xmin |-> xmin, ymin |-> ymin, xmax |-> xmax, ymax |-> ymax,
     objness |-> objness, classes |-> classes]

\* Sequences over S of length 0..n
SeqsUpTo(S, n) == UNION { [1..k -> S] : k \in 0..n }

\* `_interval_overlap([x1, x2], [x3, x4])`
IntervalOverlap(x1, x2, x3, x4) ==
    IF x3 < x1
    THEN IF x4 < x1 THEN 0
         ELSE (IF x2 < x4 THEN x2 ELSE x4) - x1
    ELSE IF x2 < x3 THEN 0
         ELSE (IF x2 < x4 THEN x2 ELSE x4) - x3

\* Variant: the ZeroDivisionError is not caught; den = 0 stands for the fault
MutTryDivide(intersect, union) == [num |-> intersect, den |-> union]

\* `try: return float(intersect) / float(union)` / `except: return 0.0`:
\* the quotient as num / den
TryDivide(intersect, union) ==
    IF union = 0 THEN [num |-> 0, den |-> 1]
    ELSE [num |-> intersect, den |-> union]

\* Variant: the intersection is counted twice in the union
MutBboxIou(box1, box2) ==
    LET intersect_w == IntervalOverlap(box1.xmin, box1.xmax, box2.xmin, box2.xmax)
        intersect_h == IntervalOverlap(box1.ymin, box1.ymax, box2.ymin, box2.ymax)
        intersect   == intersect_w * intersect_h
        union == (box1.xmax - box1.xmin) * (box1.ymax - box1.ymin)
                   + (box2.xmax - box2.xmin) * (box2.ymax - box2.ymin)
    IN  TryDivide(intersect, union)

\* `bbox_iou(box1, box2)`
bbox_iou(box1, box2) ==
    LET intersect_w == IntervalOverlap(box1.xmin, box1.xmax, box2.xmin, box2.xmax)
        intersect_h == IntervalOverlap(box1.ymin, box1.ymax, box2.ymin, box2.ymax)
        intersect   == intersect_w * intersect_h
        w1 == box1.xmax - box1.xmin
        h1 == box1.ymax - box1.ymin
        w2 == box2.xmax - box2.xmin
        h2 == box2.ymax - box2.ymin
        union == w1 * h1 + w2 * h2 - intersect
    IN  TryDivide(intersect, union)

\* Variant: the comparison with the threshold is strict
MutIouReaches(iou, t) ==
    IF iou.den > 0 THEN iou.num * 100 > t * iou.den
    ELSE iou.num * 100 < t * iou.den

\* `bbox_iou(...) >= nms_thresh`, t in hundredths
IouReaches(iou, t) ==
    IF iou.den > 0 THEN iou.num * 100 >= t * iou.den
    ELSE iou.num * 100 <= t * iou.den

\* Variant: the whole box is dropped, not its score for one class
MutZeroScore(bs, k, c) ==
    [bs EXCEPT ![k].classes = [d \in DOMAIN bs[k].classes |-> 0]]

\* `boxes[k].classes[c] = 0`
ZeroScore(bs, k, c) == [bs EXCEPT ![k].classes[c] = 0]

\* Variant: the indices are sorted by ascending class probability
\* The orders of the indices of a list of at most MaxBoxes + 1 boxes
IndexOrders ==
    UNION { { ord \in [1..k -> 1..k] :
                \A a, b \in 1..k : a # b => ord[a] # ord[b] } :
            k \in 0..(MaxBoxes + 1) }

MutSortedOrders(bs, c) ==
    { ord \in IndexOrders :
        /\ Len(ord) = Len(bs)
        /\ \A a \in 1..(Len(bs) - 1) :
              bs[ord[a]].classes[c] <= bs[ord[a + 1]].classes[c] }

\* `np.argsort([-box.classes[c] for box in boxes])`: the index orders with
\* descending class-c score; boxes with equal scores come in any order
\* (the default sort of argsort is not stable)
SortedOrders(bs, c) ==
    { ord \in IndexOrders :
        /\ Len(ord) = Len(bs)
        /\ \A a \in 1..(Len(bs) - 1) :
              bs[ord[a]].classes[c] >= bs[ord[a + 1]].classes[c] }

\* `for j in range(i + 1, len(sorted_indices)): if iou >= nms_thresh: ... = 0`
RECURSIVE NmsInner(_, _, _, _, _, _)
NmsInner(bs, c, ord, i, j, t) ==
    IF j > Len(ord) THEN bs
    ELSE NmsInner(
             IF IouReaches(bbox_iou(bs[ord[i]], bs[ord[j]]), t)
             THEN ZeroScore(bs, ord[j], c) ELSE bs,
             c, ord, i, j + 1, t)

\* `for i in range(len(sorted_indices)): if boxes[sorted_indices[i]].classes[c]: ...`
RECURSIVE NmsOuter(_, _, _, _, _)
NmsOuter(bs, c, ord, i, t) ==
    IF i > Len(ord) THEN bs
    ELSE NmsOuter(
             IF bs[ord[i]].classes[c] # 0
             THEN NmsInner(bs, c, ord, i, i + 1, t) ELSE bs,
             c, ord, i + 1, t)

\* `for c in range(len(boxes[0].classes)): ...`: the lists the sweeps of
\* classes c, c + 1, ... can leave
RECURSIVE NmsClasses(_, _, _)
NmsClasses(bs, c, t) ==
    IF c > Len(bs[1].classes) THEN {bs}
    ELSE UNION { NmsClasses(NmsOuter(bs, c, ord, 1, t), c + 1, t) :
                   ord \in SortedOrders(bs, c) }

\* `do_nms(boxes, nms_thresh)`: the lists the call can leave in `boxes`
do_nms(bs, t) == IF Len(bs) # 0 THEN NmsClasses(bs, 1, t) ELSE {bs}

\* Box lists and thresholds do_nms is applied to
NmsRects ==
    { <<0, 0, 10, 10>>, <<0, 0, 10, 9>>, <<6, 0, 16, 10>>, <<12, 12, 12, 12>> }

NmsClassScores == { <<90, 0>>, <<80, 60>>, <<60, 80>> }

NmsBoxes ==
    { BoundBox(r[1], r[2], r[3], r[4], 95, cs) :
        r \in NmsRects, cs \in NmsClassScores }

NmsThresholds == {0, 25, 45}

TypeImage(boxSet, roiSet, nmsSet, labelsSet, threshSet) ==
    /\ boxes \in boxSet
    /\ boxes_in = boxes
    /\ region_of_interest \in roiSet
    /\ nms_thresh \in nmsSet
    /\ labels \in labelsSet
    /\ thresh \in threshSet
    /\ v_result = <<>>
    /\ ipc = "call"
    /\ NoDetectCall
    /\ NoDecodeCall

InitNms ==
    /\ VideoIdle
    /\ TypeImage(SeqsUpTo(NmsBoxes, MaxBoxes), {<<>>}, NmsThresholds,
                 {<<>>}, {0})

\* The call self.__detection_utils.do_nms(boxes, nms_thresh)
DoNms ==
    /\ ipc = "call"
    /\ boxes' \in do_nms(boxes, nms_thresh)
    /\ ipc' = "returned"
    /\ UNCHANGED << videoVars, detectVars, decodeVars, boxes_in, region_of_interest,
                    nms_thresh, labels, thresh, v_result >>

SpecNms == InitNms /\ [][DoNms]_vars

\* `int(s / 2)`: true division, then the fraction is dropped (toward zero)
HalfTruncated(s) == IF s >= 0 THEN s \div 2 ELSE -((-s) \div 2)

\* Variant: the upper end of the range is included
MutInRange(x, lo, hi) == lo <= x /\ x <= hi

\* `x in range(lo, hi)`
InRange(x, lo, hi) == lo <= x /\ x < hi

\* `x_centre not in range(roi[0], roi[1]) or y_centre not in range(roi[2], roi[3])`
OutsideRoI(box, roi) ==
    LET x_centre == HalfTruncated(box.xmax + box.xmin)
        y_centre == HalfTruncated(box.ymax + box.ymin)
    IN  \/ ~InRange(x_centre, roi[1], roi[2])
        \/ ~InRange(y_centre, roi[3], roi[4])

\* Variant: a region of more than 4 coordinates is used as well
MutRoIGiven(roi) == roi # <<>> /\ Len(roi) >= 4

\* `if region_of_interest and len(region_of_interest) == 4`
RoIGiven(roi) == roi # <<>> /\ Len(roi) = 4

\* Variant: the class loop stops after the first score it zeroes
MutRoI(bs, roi) ==
    IF RoIGiven(roi)
    THEN [i \in DOMAIN bs |->
             [bs[i] EXCEPT !.classes =
                 [c \in DOMAIN bs[1].classes |->
                     IF /\ bs[i].classes[c] # 0
                        /\ OutsideRoI(bs[i], roi)
                        /\ \A d \in 1..(c - 1) : bs[i].classes[d] = 0
                     THEN 0 ELSE bs[i].classes[c]]]]
    ELSE bs

\* `RoI(boxes, region_of_interest)`: the list the call leaves in `boxes`
RoI(bs, roi) ==
    IF RoIGiven(roi)
    THEN [i \in DOMAIN bs |->
             [bs[i] EXCEPT !.classes =
                 [c \in DOMAIN bs[1].classes |->
                     IF bs[i].classes[c] # 0 /\ OutsideRoI(bs[i], roi)
                     THEN 0 ELSE bs[i].classes[c]]]]
    ELSE bs

\* Box lists and regions RoI is applied to: centroids (150, 100), (250, 100), (200, 50)
\* from (200.5, 50.5), (100, 149) and (0, 0) from (-0.5, -0.5)
RoIRects ==
    { <<140, 90, 160, 110>>, <<240, 90, 260, 110>>, <<190, 40, 211, 61>>,
      <<90, 140, 110, 159>>, <<-3, -3, 2, 2>> }

RoIClassScores == { <<90, 0>>, <<60, 80>> }

RoIBoxes ==
    { BoundBox(r[1], r[2], r[3], r[4], 95, cs) :
        r \in RoIRects, cs \in RoIClassScores }

RegionsOfInterest ==
    { <<100, 200, 50, 150>>, <<0, 200, 0, 150>>, <<200, 100, 50, 150>>,
      <<100, 200, 50>>, <<100, 200, 50, 150, 7>>, <<>> }

InitRoI ==
    /\ VideoIdle
    /\ TypeImage(SeqsUpTo(RoIBoxes, MaxBoxes), RegionsOfInterest, {0},
                 {<<>>}, {0})

\* The call self.__detection_utils.RoI(boxes, region_of_interest)
DoRoI ==
    /\ ipc = "call"
    /\ boxes' = RoI(boxes, region_of_interest)
    /\ ipc' = "returned"
    /\ UNCHANGED << videoVars, detectVars, decodeVars, boxes_in, region_of_interest,
                    nms_thresh, labels, thresh, v_result >>

\* A second call of RoI on the same list; v_result keeps the list as the
\* first call left it
DoRoIAgain ==
    /\ ipc = "returned"
    /\ v_result' = boxes
    /\ boxes' = RoI(boxes, region_of_interest)
    /\ ipc' = "returned_again"
    /\ UNCHANGED << videoVars, detectVars, decodeVars, boxes_in, region_of_interest,
                    nms_thresh, labels, thresh >>

NextRoI == DoRoI \/ DoRoIAgain

SpecRoI == InitRoI /\ [][NextRoI]_vars

\* Variant: a score equal to the threshold is selected too
MutAboveThreshold(score, t) == score >= t

\* `box.classes[i] > thresh`
AboveThreshold(score, t) == score > t

\* The three lists get_boxes returns; an entry of v_boxes is the position in
\* `boxes` of the box object it refers to
BoxLists(v_boxes, v_labels, v_scores) ==
    [v_boxes |-> v_boxes, v_labels |-> v_labels, v_scores |-> v_scores]

\* `for i in range(len(labels)): if box.classes[i] > thresh: ...append(...)`
RECURSIVE SelectLabels(_, _, _, _, _, _)
SelectLabels(bs, b, ls, i, t, acc) ==
    IF i > Len(ls) THEN acc
    ELSE SelectLabels(bs, b, ls, i + 1, t,
             IF AboveThreshold(bs[b].classes[i], t)
             THEN BoxLists(Append(acc.v_boxes, b),
                           Append(acc.v_labels, ls[i]),
                           Append(acc.v_scores, bs[b].classes[i] * 100))
             ELSE acc)

\* `for box in boxes: ...`
RECURSIVE SelectBoxes(_, _, _, _, _)
SelectBoxes(bs, b, ls, t, acc) ==
    IF b > Len(bs) THEN acc
    ELSE SelectBoxes(bs, b + 1, ls, t, SelectLabels(bs, b, ls, 1, t, acc))

\* `get_boxes(boxes, labels, thresh)`
get_boxes(bs, ls, t) == SelectBoxes(bs, 1, ls, t, BoxLists(<<>>, <<>>, <<>>))

\* Box lists, labels and thresholds get_boxes is applied to
SelectClassScores == { <<90, 0>>, <<60, 80>>, <<80, 80>>, <<0, 0>> }

SelectBoxesIn == { BoundBox(0, 0, 10, 10, 95, cs) : cs \in SelectClassScores }

LabelLists == { <<"a", "b">>, <<"b", "a">> }

SelectThresholds == {0, 60, 80, 90}

InitGetBoxes ==
    /\ VideoIdle
    /\ TypeImage(SeqsUpTo(SelectBoxesIn, MaxBoxes), {<<>>}, {0},
                 LabelLists, SelectThresholds)

\* `box.classes[i]` with `i in range(len(labels))` raises IndexError on the
\* first box when there are more labels than class scores
GetBoxesRaises(bs, ls) == bs # <<>> /\ Len(ls) > Len(bs[1].classes)

\* The call self.__detection_utils.get_boxes(boxes, labels, thresh)
DoGetBoxes ==
    /\ ipc = "call"
    /\ IF GetBoxesRaises(boxes, labels)
       THEN v_result' = v_result /\ ipc' = "raised"
       ELSE v_result' = get_boxes(boxes, labels, thresh) /\ ipc' = "returned"
    /\ UNCHANGED << videoVars, detectVars, decodeVars, boxes, boxes_in,
                    region_of_interest, nms_thresh, labels, thresh >>

SpecGetBoxes == InitGetBoxes /\ [][DoGetBoxes]_vars

\* Label lists shorter and longer than the 2 class scores of a box
MismatchedLabelLists == { <<"a">>, <<"a", "b", "c">>, <<>> }

InitLabels ==
    /\ VideoIdle
    /\ TypeImage(SeqsUpTo(SelectBoxesIn, MaxBoxes), {<<>>}, {0},
                 LabelLists \cup MismatchedLabelLists, SelectThresholds)

SpecLabels == InitLabels /\ [][DoGetBoxes]_vars

\* ------------------------------------------------------------- bbox_iou
\* Boxes with xmin <= xmax and ymin <= ymax on a small grid, zero-area
\* ones included
GridBoxes ==
    { BoundBox(x1, y1, x2, y2, 95, <<90, 0>>) :
        x1 \in 0..MaxCoord, y1 \in 0..MaxCoord,
        x2 \in 0..MaxCoord, y2 \in 0..MaxCoord }
    \ { b \in { BoundBox(x1, y1, x2, y2, 95, <<90, 0>>) :
                  x1 \in 0..MaxCoord, y1 \in 0..MaxCoord,
                  x2 \in 0..MaxCoord, y2 \in 0..MaxCoord } :
          b.xmin > b.xmax \/ b.ymin > b.ymax }

InitIou ==
    /\ VideoIdle
    /\ TypeImage([1..2 -> GridBoxes], {<<>>}, {0}, {<<>>}, {0})

\* The call self.bbox_iou(boxes[1], boxes[2])
DoIou ==
    /\ ipc = "call"
    /\ v_result' = bbox_iou(boxes[1], boxes[2])
    /\ ipc' = "returned"
    /\ UNCHANGED << videoVars, detectVars, decodeVars, boxes, boxes_in,
                    region_of_interest, nms_thresh, labels, thresh >>

SpecIou == InitIou /\ [][DoIou]_vars

\* -------------------------------------- decode_netout, correct_yolo_boxes
\* One scale of the network output is a grid_h x grid_w x 3 array of
\* vectors << x, y, w, h, objectness, class 1, class 2 >>, in hundredths.
\* A coordinate of a decoded box is the quotient [num, den] with den > 0.

\* `_sigmoid(x)`: 1 / (1 + exp(-x)) to the nearest hundredth, on the values
\* the arrays below can hold
Sigmoid(v) ==
    CASE v = -139 -> 20 [] v = 0 -> 50 [] v = 139 -> 80
      [] v = 4 -> 51 [] v = 10 -> 52 [] v = 16 -> 54 [] v = 20 -> 55
      [] v = 25 -> 56 [] v = 40 -> 60 [] v = 50 -> 62 [] v = 64 -> 65
      [] v = 80 -> 69

\* `np.exp(w)` to the nearest hundredth, on the values the arrays can hold
Exp(v) == CASE v = -69 -> 50 [] v = 0 -> 100 [] v = 69 -> 199

\* The four assignments to `netout[...]` on one vector:
\* `[..., :2] = sigmoid`, `[..., 4:] = sigmoid`,
\* `[..., 5:] = [..., 4] * [..., 5:]`, `[..., 5:] *= [..., 5:] > obj_thresh`
SigmoidCell(v, obj_thresh) ==
    LET objectness == Sigmoid(v[5])
        Score(c) == (objectness * Sigmoid(v[c])) \div 100
        Gated(c) == IF Score(c) > obj_thresh THEN Score(c) ELSE 0
    IN  << Sigmoid(v[1]), Sigmoid(v[2]), v[3], v[4], objectness,
           Gated(6), Gated(7) >>

\* The array after the four assignments
SigmoidArray(a, obj_thresh) ==
    [row \in DOMAIN a |-> [col \in DOMAIN a[row] |->
        [b \in DOMAIN a[row][col] |-> SigmoidCell(a[row][col][b], obj_thresh)]]]

\* Variant: xmax and ymax are taken on the wrong side of the centre
MutDecodedBox(v, row, col, b, grid_h, grid_w, args) ==
    LET xc == 2 * args.net_w * (100 * (col - 1) + v[1])
        yc == 2 * args.net_h * (100 * (row - 1) + v[2])
        w == grid_w * args.anchors[2 * (b - 1) + 1] * Exp(v[3])
        h == grid_h * args.anchors[2 * (b - 1) + 2] * Exp(v[4])
        dx == 200 * grid_w * args.net_w
        dy == 200 * grid_h * args.net_h
    IN  BoundBox([num |-> xc - w, den |-> dx], [num |-> yc - h, den |-> dy],
                 [num |-> xc - 2 * w, den |-> dx],
                 [num |-> yc - 2 * h, den |-> dy],
                 v[5], << v[6], v[7] >>)

\* `x = (col + x) / grid_w`, `w = anchors[2 * b + 0] * np.exp(w) / net_w`,
\* `BoundBox(x - w/2, y - h/2, x + w/2, y + h/2, objectness, classes)`;
\* rows, columns and anchors count from 1 here
DecodedBox(v, row, col, b, grid_h, grid_w, args) ==
    LET xc == 2 * args.net_w * (100 * (col - 1) + v[1])
        yc == 2 * args.net_h * (100 * (row - 1) + v[2])
        w == grid_w * args.anchors[2 * (b - 1) + 1] * Exp(v[3])
        h == grid_h * args.anchors[2 * (b - 1) + 2] * Exp(v[4])
        dx == 200 * grid_w * args.net_w
        dy == 200 * grid_h * args.net_h
    IN  BoundBox([num |-> xc - w, den |-> dx], [num |-> yc - h, den |-> dy],
                 [num |-> xc + w, den |-> dx], [num |-> yc + h, den |-> dy],
                 v[5], << v[6], v[7] >>)

\* Variant: a cell whose objectness equals the threshold gives a box too
MutObjectnessGate(objectness, obj_thresh) == objectness >= obj_thresh

\* `if objectness > obj_thresh`
ObjectnessGate(objectness, obj_thresh) == objectness > obj_thresh

\* The loops `for row ... for col ... for b in range(nb_box)` from cell k on,
\* cells counted in loop order from 0
RECURSIVE DecodeLoop(_, _, _, _)
DecodeLoop(a, k, obj_thresh, args) ==
    LET grid_h == Len(a)
        grid_w == Len(a[1])
        row == (k \div (grid_w * 3)) + 1
        col == ((k \div 3) % grid_w) + 1
        b == (k % 3) + 1
    IN  IF k >= grid_h * grid_w * 3 THEN <<>>
        ELSE ( IF ObjectnessGate(a[row][col][b][5], obj_thresh)
               THEN << DecodedBox(a[row][col][b], row, col, b,
                                  grid_h, grid_w, args) >>
               ELSE <<>> )
             \o DecodeLoop(a, k + 1, obj_thresh, args)

\* `decode_netout(netout, anchors, obj_thresh, net_h, net_w)`: the boxes
\* returned
decode_netout(a, obj_thresh, args) ==
    DecodeLoop(SigmoidArray(a, obj_thresh), 0, obj_thresh, args)

\* `netout = netout.reshape(...)` is a view of the caller's array or a copy
\* of it: what the caller's array holds after the call
ArrayAfterDecode(a, obj_thresh, args) ==
    IF args.reshape_is_view THEN SigmoidArray(a, obj_thresh) ELSE a

\* `int(q * size)` for a quotient q
IntOfProduct(q, size) ==
    IF q.num * size >= 0 THEN (q.num * size) \div q.den
    ELSE -((-(q.num * size)) \div q.den)

\* `correct_yolo_boxes(boxes, image_h, image_w, net_h, net_w)`
correct_yolo_boxes(bs, args) ==
    [i \in DOMAIN bs |->
        [bs[i] EXCEPT !.xmin = IntOfProduct(bs[i].xmin, args.image_w),
                      !.xmax = IntOfProduct(bs[i].xmax, args.image_w),
                      !.ymin = IntOfProduct(bs[i].ymin, args.image_h),
                      !.ymax = IntOfProduct(bs[i].ymax, args.image_h)]]

\* Vectors of the arrays: objectness 0.8, 0.5 and 0.2 after the sigmoid
RawCells ==
    { << 0, 0, 0, 0, 139, 139, -139 >>,
      << 139, -139, 69, -69, 0, 0, 139 >>,
      << -139, 139, -69, 69, -139, 139, 139 >> }

GridShapes == { << 1, 2 >>, << 2, 1 >> }

Netouts3(shape) == [1..shape[1] -> [1..shape[2] -> [1..3 -> RawCells]]]

ObjectThresholds == {16, 50}

DecodeArguments ==
    [anchors : { << 10, 13, 116, 90, 373, 326 >> },
     net_h : {416}, net_w : {416},
     image_h : {0, 100}, image_w : {50},
     reshape_is_view : BOOLEAN]

InitDecode ==
    /\ VideoIdle
    /\ NoDetectCall
    /\ boxes = <<>>
    /\ boxes_in = <<>>
    /\ region_of_interest \in { <<>>, <<0, 30, 0, 60>> }
    /\ nms_thresh = 45
    /\ labels = <<>>
    /\ thresh \in ObjectThresholds
    /\ v_result = <<>>
    /\ ipc = "call"
    /\ netout \in UNION { Netouts3(shape) : shape \in GridShapes }
    /\ netout_in = netout
    /\ decode_args \in DecodeArguments

DecodeUnchanged == UNCHANGED << videoVars, detectVars, region_of_interest,
                                nms_thresh, labels, thresh, v_result,
                                netout_in, decode_args >>

\* The call decode_netout(netout, anchors, thresh, net_h, net_w)
DoDecode ==
    /\ ipc = "call"
    /\ boxes' = decode_netout(netout, thresh, decode_args)
    /\ netout' = ArrayAfterDecode(netout, thresh, decode_args)
    /\ ipc' = "decoded"
    /\ UNCHANGED boxes_in
    /\ DecodeUnchanged

\* A second call of decode_netout with the same array; boxes_in keeps the
\* list the first call returned
DoDecodeAgain ==
    /\ ipc = "decoded"
    /\ boxes_in' = boxes
    /\ boxes' = decode_netout(netout, thresh, decode_args)
    /\ netout' = ArrayAfterDecode(netout, thresh, decode_args)
    /\ ipc' = "decoded_again"
    /\ DecodeUnchanged

\* The call correct_yolo_boxes(boxes, image_h, image_w, net_h, net_w)
DoCorrect ==
    /\ ipc = "decoded"
    /\ boxes' = correct_yolo_boxes(boxes, decode_args)
    /\ ipc' = "corrected"
    /\ UNCHANGED << boxes_in, netout >>
    /\ DecodeUnchanged

\* The calls RoI(boxes, region_of_interest) and do_nms(boxes, nms_thresh),
\* on lists of at most MaxBoxes boxes
DoFilter ==
    /\ ipc = "corrected"
    /\ Len(boxes) <= MaxBoxes
    /\ boxes_in' = boxes
    /\ boxes' \in do_nms(RoI(boxes, region_of_interest), nms_thresh)
    /\ ipc' = "filtered"
    /\ UNCHANGED netout
    /\ DecodeUnchanged

NextDecode == DoDecode \/ DoDecodeAgain \/ DoCorrect \/ DoFilter

SpecDecode == InitDecode /\ [][NextDecode]_vars

\* ------------------------------------------------ detectObjectsFromImage
\* Percentages are in hundredths as well: minimum_percentage_probability 30
\* is 3000 and `/ 100` makes it the threshold 0.30, which is 30.

\* One anchor box of one grid cell of the network output after the sigmoids:
\* the pixel rectangle it decodes and corrects to, objectness, class
\* probabilities
Cell(rect, objectness, probs) ==
    [rect |-> rect, objectness |-> objectness, probs |-> probs]

\* `netout[..., 5:] = objectness * netout[..., 5:]` and
\* `netout[..., 5:] *= netout[..., 5:] > obj_thresh`
CellClasses(cell, obj_thresh) ==
    [c \in DOMAIN cell.probs |->
        LET score == (cell.objectness * cell.probs[c]) \div 100
        IN  IF score > obj_thresh THEN score ELSE 0]

\* The threshold tests of `decode_netout(..., obj_thresh, ...)` on cells
\* whose sigmoids and rectangle are already computed: a box for every cell
\* with `objectness > obj_thresh`, in grid order
RECURSIVE GatedBoxes(_, _)
GatedBoxes(cells, obj_thresh) ==
    IF cells = <<>> THEN <<>>
    ELSE LET cell == Head(cells)
             rest == GatedBoxes(Tail(cells), obj_thresh)
         IN  IF cell.objectness > obj_thresh
             THEN << BoundBox(cell.rect[1], cell.rect[2], cell.rect[3],
                              cell.rect[4], cell.objectness,
                              CellClasses(cell, obj_thresh)) >> \o rest
             ELSE rest

\* `np.max(object_box.xmin, 0)`: the second argument is the axis, and the
\* maximum of a scalar along axis 0 is the scalar
np_max(x, axis) == x

\* `output_objects_array.append({'name': ..., 'percentage_probability': ...,
\* 'box_points': [...]})` for the entries of the three lists
OutputObjects(bs, res) ==
    [k \in DOMAIN res.v_boxes |->
        LET object_box == bs[res.v_boxes[k]]
        IN  [name |-> res.v_labels[k],
             percentage_probability |-> res.v_scores[k],
             box_points |-> << np_max(object_box.xmin, 0),
                               np_max(object_box.ymin, 0),
                               object_box.xmax, object_box.ymax >>]]

\* The callers that share the detector
Callers == {1, 2}

\* self.__model_labels
ModelLabels == <<"a", "b">>

\* (minimum_percentage_probability, nms_threshold) of a call
CallArguments ==
    { <<3000, 45>>, <<7000, 25>>, <<3000, 25>>, <<15000, 45>>, <<3000, 150>> }

\* What self.__model.predict(image) gives for the images of the callers
Netouts ==
    { << Cell(<<0, 0, 10, 10>>, 80, <<75, 50>>),
         Cell(<<0, 0, 10, 9>>, 50, <<80, 60>>) >>,
      << Cell(<<6, 0, 16, 10>>, 80, <<75, 50>>),
         Cell(<<0, 0, 10, 10>>, 80, <<50, 75>>),
         Cell(<<12, 12, 12, 12>>, 20, <<50, 50>>) >>,
      << Cell(<<-4, -2, 6, 8>>, 80, <<75, 50>>) >> }

InitDetect ==
    /\ VideoIdle
    /\ NoBoxCall
    /\ NoDecodeCall
    /\ self_object_threshold = 0
    /\ self_nms_threshold = 0
    /\ threads \in [Callers ->
          { [pc |-> "start",
             minimum_percentage_probability |-> a[1],
             nms_threshold |-> a[2],
             region_of_interest |-> <<>>,
             yolo_results |-> n,
             boxes |-> <<>>,
             output_objects_array |-> <<>>] :
            a \in CallArguments, n \in Netouts }]

DetectUnchanged == UNCHANGED << videoVars, decodeVars, boxes, boxes_in,
                                region_of_interest, nms_thresh, labels,
                                thresh, v_result, ipc >>

\* `self.__object_threshold = minimum_percentage_probability / 100`
SetObjectThreshold(t) ==
    /\ threads[t].pc = "start"
    /\ self_object_threshold' = threads[t].minimum_percentage_probability \div 100
    /\ threads' = [threads EXCEPT ![t].pc = "object_threshold_set"]
    /\ UNCHANGED self_nms_threshold
    /\ DetectUnchanged

\* `self.__nms_threshold = nms_threshold`
SetNmsThreshold(t) ==
    /\ threads[t].pc = "object_threshold_set"
    /\ self_nms_threshold' = threads[t].nms_threshold
    /\ threads' = [threads EXCEPT ![t].pc = "thresholds_set"]
    /\ UNCHANGED self_object_threshold
    /\ DetectUnchanged

\* predict, `decode_netout(..., self.__object_threshold, ...)`,
\* correct_yolo_boxes and `RoI(boxes, region_of_interest)`
Decode(t) ==
    /\ threads[t].pc = "thresholds_set"
    /\ threads' = [threads EXCEPT
          ![t].pc = "decoded",
          ![t].boxes = RoI(GatedBoxes(threads[t].yolo_results,
                                         self_object_threshold),
                           threads[t].region_of_interest)]
    /\ UNCHANGED << self_object_threshold, self_nms_threshold >>
    /\ DetectUnchanged

\* `do_nms(boxes, self.__nms_threshold)`
Suppress(t) ==
    /\ threads[t].pc = "decoded"
    /\ \E bs \in do_nms(threads[t].boxes, self_nms_threshold) :
          threads' = [threads EXCEPT ![t].pc = "suppressed", ![t].boxes = bs]
    /\ UNCHANGED << self_object_threshold, self_nms_threshold >>
    /\ DetectUnchanged

\* `get_boxes(boxes, self.__model_labels, self.__object_threshold)` and the
\* loop that fills output_objects_array
Select(t) ==
    /\ threads[t].pc = "suppressed"
    /\ threads' = [threads EXCEPT
          ![t].pc = "done",
          ![t].output_objects_array =
              OutputObjects(threads[t].boxes,
                            get_boxes(threads[t].boxes, ModelLabels,
                                      self_object_threshold))]
    /\ UNCHANGED << self_object_threshold, self_nms_threshold >>
    /\ DetectUnchanged

NextDetect ==
    \E t \in Callers :
        \/ SetObjectThreshold(t)
        \/ SetNmsThreshold(t)
        \/ Decode(t)
        \/ Suppress(t)
        \/ Select(t)

SpecDetect == InitDetect /\ [][NextDetect]_vars

\* ------------------------------------------------------------ properties

\* Invocations of callback f, and those made while frame n was the current one
CallsOf(f) == { i \in DOMAIN calls : calls[i].fn = f }
CallsAt(f, n) == { i \in CallsOf(f) : calls[i].at = n }

\* Instances of label l in one detection list, counted directly
LabelCount(arr, l) == Cardinality({ i \in DOMAIN arr : arr[i].name = l })

\* Instances of label l in the recorded frames lo..hi
RECURSIVE TotalCount(_, _, _)
TotalCount(lo, hi, l) ==
    IF hi < lo THEN 0
    ELSE IF hi = lo THEN LabelCount(output_frames_dict[lo], l)
    ELSE LET mid == (lo + hi) \div 2 IN
         TotalCount(lo, mid, l) + TotalCount(mid + 1, hi, l)

\* Labels that occur in at least one of the recorded frames lo..hi
LabelsIn(lo, hi) ==
    { l \in Labels : \E k \in lo..hi : LabelCount(output_frames_dict[k], l) > 0 }

\* The per-frame count map of recorded frame k, derived from its list
CountMapIs(cnt, k) ==
    /\ DOMAIN cnt = LabelsIn(k, k)
    /\ \A l \in DOMAIN cnt : cnt[l] = LabelCount(output_frames_dict[k], l)

Finished == pc \in {"done", "raised"}

\* C1: outside performance mode, with per_second_function supplied and no
\* detection_timeout, the per-second callback is invoked (once) at frame n
\* if and only if n is a positive multiple of frames_per_second and n # 1.
C1_PerSecondOnTheSecond ==
    (~performance_mode /\ per_second_function /\ detection_timeout = 0) =>
        /\ \A i \in CallsOf("per_second_function") : calls[i].at \in 1..n_frame
        /\ \A n \in 1..n_frame :
              Cardinality(CallsAt("per_second_function", n)) =
                  IF (\E m \in 1..n : n = m * frames_per_second) /\ n # 1
                  THEN 1 ELSE 0

C1_Witness ==
    /\ ~performance_mode /\ per_second_function /\ detection_timeout = 0
    /\ frames_per_second = 2 /\ n_frame = 4
    /\ { calls[i].at : i \in CallsOf("per_second_function") } = {2, 4}

\* C2: a scan outside performance mode that ran to the end of an N-frame
\* source with video_complete_function supplied invokes the end-of-scan
\* callback exactly once, as the last callback, with the detection lists and
\* count maps of frames 1..N in order and, per label, total count / N.
C2_VideoCompleteAtEnd ==
    (Finished /\ ~performance_mode /\ stopped_by = "end_of_source"
              /\ video_complete_function) =>
        /\ pc = "done"
        /\ n_frame = source_frames
        /\ Cardinality(CallsOf("video_complete_function")) = 1
        /\ calls # <<>>
        /\ LET c == calls[Len(calls)] IN
           /\ c.fn = "video_complete_function"
           /\ Len(c.args) = 3
           /\ DOMAIN output_frames_dict = 1..n_frame
           /\ Len(c.args[1]) = n_frame
           /\ Len(c.args[2]) = n_frame
           /\ \A k \in 1..n_frame :
                 /\ c.args[1][k] = output_frames_dict[k]
                 /\ CountMapIs(c.args[2][k], k)
           /\ DOMAIN c.args[3] = LabelsIn(1, n_frame)
           /\ \A l \in DOMAIN c.args[3] :
                 /\ c.args[3][l].den # 0
                 /\ c.args[3][l].num * n_frame
                        = TotalCount(1, n_frame, l) * c.args[3][l].den

C2_Witness ==
    /\ pc = "done" /\ ~performance_mode /\ stopped_by = "end_of_source"
    /\ video_complete_function /\ per_second_function /\ per_frame_function
    /\ n_frame = 3 /\ frames_per_second = 2
    /\ calls[Len(calls)].fn = "video_complete_function"
    /\ "a" \in DOMAIN calls[Len(calls)].args[3]
    /\ calls[Len(calls)].args[3]["a"] = [num |-> 4, den |-> 3]

\* C3: when the detection_timeout limit stops a scan outside performance
\* mode and video_complete_function is supplied, the end-of-scan callback
\* still fires exactly once, with the history of the frames recorded before
\* the stop.
C3_VideoCompleteAfterTimeout ==
    (Finished /\ ~performance_mode /\ stopped_by = "timeout"
              /\ video_complete_function) =>
        /\ pc = "done"
        /\ Cardinality(CallsOf("video_complete_function")) = 1
        /\ LET c == calls[Len(calls)] IN
           /\ c.fn = "video_complete_function"
           /\ Len(c.args[1]) = Cardinality(DOMAIN output_frames_dict)
           /\ \A k \in DOMAIN output_frames_dict :
                 c.args[1][k] = output_frames_dict[k]

\* C4: detection_timeout = T is the number of seconds detected before the
\* stop: when the timeout stops the scan, every frame
\* 1..T * frames_per_second has been processed and recorded, the per-second
\* callback has fired for each of the seconds 1..T, and no later frame has
\* been processed.
C4_TimeoutDetectsTSeconds ==
    (~performance_mode /\ stopped_by = "timeout") =>
        /\ DOMAIN output_frames_dict = 1..(detection_timeout * frames_per_second)
        /\ per_second_function =>
              \A sec \in 1..detection_timeout :
                  (sec * frames_per_second # 1) =>
                      \E i \in CallsOf("per_second_function") :
                          calls[i].args[1] = sec

\* C5: outside performance mode a detector call that raises on frame n does
\* not abort the scan: in that same step frame n is recorded with an empty
\* detection list and an empty count map, the per-frame callback (if
\* supplied) is invoked for n with these, the per-second and per-minute
\* callbacks (if supplied) are invoked when n is on the second / minute, and
\* the loop goes on scanning.
C5_FailedFrameRecordedEmpty ==
    [][ (~performance_mode /\ n_frame' \in failed_frames' \ failed_frames) =>
          LET n   == n_frame'
              new == SubSeq(calls', Len(calls) + 1, Len(calls'))
              has(f) == \E i \in DOMAIN new : new[i].fn = f /\ new[i].at = n
          IN  /\ pc' = "scanning"
              /\ n = n_frame + 1
              /\ n \in DOMAIN output_frames_dict'
              /\ output_frames_dict'[n] = <<>>
              /\ output_frames_count_dict'[n] = <<>>
              /\ per_frame_function =>
                    \E i \in DOMAIN new :
                        /\ new[i].fn = "per_frame_function"
                        /\ new[i].args[1] = n
                        /\ new[i].args[2] = <<>>
                        /\ new[i].args[3] = <<>>
              /\ (per_second_function /\ n # 1 /\ n % frames_per_second = 0)
                    => has("per_second_function")
              /\ (per_minute_function /\ n # 1
                    /\ n % (SecondsPerMinute * frames_per_second) = 0)
                    => has("per_minute_function")
      ]_vars

C5_Witness ==
    /\ ~performance_mode /\ per_frame_function /\ per_second_function
    /\ 2 \in failed_frames /\ frames_per_second = 2
    /\ output_frames_dict[2] = <<>> /\ output_frames_dict[1] # <<>>
    /\ CallsAt("per_frame_function", 2) # {}
    /\ CallsAt("per_second_function", 2) # {}
    /\ n_frame = 3 /\ output_frames_dict[3] # <<>>

\* The frames a window callback invoked at frame n with window size w covers
WindowIs(c, w) ==
    /\ Len(c.args[2]) = w
    /\ Len(c.args[3]) = w
    /\ c.at >= w
    /\ \A k \in 1..w :
          /\ c.args[2][k] = output_frames_dict[c.at - w + k]
          /\ CountMapIs(c.args[3][k], c.at - w + k)

\* The averaged count map of a window callback: sum over the window
\* divided by the window size, truncated
WindowAverageIs(c, w) ==
    /\ DOMAIN c.args[4] = LabelsIn(c.at - w + 1, c.at)
    /\ \A l \in DOMAIN c.args[4] :
          LET total == TotalCount(c.at - w + 1, c.at, l) IN
          /\ c.args[4][l] * w <= total
          /\ total < (c.args[4][l] + 1) * w

\* C6: every per-second callback invoked at frame n receives the detection
\* lists and count maps of exactly the frames n - frames_per_second + 1 .. n
\* in increasing order; successive windows are disjoint and never short.
C6_PerSecondWindow ==
    /\ \A i \in CallsOf("per_second_function") :
          WindowIs(calls[i], frames_per_second)
    /\ \A i, j \in CallsOf("per_second_function") :
          i < j => calls[i].at <= calls[j].at - frames_per_second

C6_Witness ==
    /\ frames_per_second = 2 /\ n_frame = 4
    /\ Cardinality(CallsOf("per_second_function")) = 2
    /\ \E i \in CallsOf("per_second_function") :
          /\ calls[i].at = 4
          /\ calls[i].args[2] = << <<Item("a")>>, <<>> >>
          /\ output_frames_dict[1] = <<Item("b"), Item("a"), Item("a")>>

\* C7: the averaged count map of a per-second callback has exactly the
\* labels that occur in the window, each with the sum of its per-frame
\* counts over the window divided by frames_per_second, truncated.
C7_PerSecondAverage ==
    \A i \in CallsOf("per_second_function") :
        WindowAverageIs(calls[i], frames_per_second)

C7_Witness ==
    /\ frames_per_second = 2
    /\ \E i \in CallsOf("per_second_function") :
          /\ DOMAIN calls[i].args[4] = {"a", "b"}
          /\ calls[i].args[4]["a"] = 1
          /\ calls[i].args[4]["b"] = 0
          /\ TotalCount(calls[i].at - 1, calls[i].at, "a") = 3

C9_PerFrame ==
    (~performance_mode /\ per_frame_function) =>
        /\ \A n \in DOMAIN output_frames_dict :
              /\ (\E k \in DOMAIN detect_calls : detect_calls[k] = n)
                    <=> (n = 1 \/ n % frame_detection_interval = 0)
              /\ Cardinality(CallsAt("per_frame_function", n)) =
                    IF \E k \in DOMAIN detect_calls : detect_calls[k] = n
                    THEN 1 ELSE 0
        /\ \A k \in DOMAIN detect_calls :
              detect_calls[k] \in DOMAIN output_frames_dict
        /\ \A i \in CallsOf("per_frame_function") :
              LET c == calls[i] IN
              /\ c.at \in DOMAIN output_frames_dict
              /\ c.args[1] = c.at
              /\ c.args[2] = output_frames_dict[c.at]
              /\ CountMapIs(c.args[3], c.at)
              /\ Len(c.args) = IF return_detected_frame THEN 4 ELSE 3
              /\ return_detected_frame => c.args[4].frame = c.at
        /\ \A i, j \in CallsOf("per_frame_function") :
              i < j => calls[i].at < calls[j].at

C9_Witness ==
    /\ ~performance_mode /\ per_frame_function /\ return_detected_frame
    /\ frame_detection_interval = 2 /\ n_frame = 4
    /\ { calls[i].at : i \in CallsOf("per_frame_function") } = {1, 2, 4}
    /\ \E i \in CallsOf("per_frame_function") :
          /\ calls[i].at = 4
          /\ calls[i].args[2] = <<Item("b"), Item("a"), Item("a")>>
          /\ calls[i].args[4] = DrawnFrame(4)

\* C10: in performance mode no per-frame, per-second or per-minute callback
\* is ever invoked and no detection_timeout stops the scan, whatever the
\* caller supplied; the detector is only called on frame 1 and on frames
\* whose index is a multiple of frame_detection_interval.
C10_PerformanceMode ==
    performance_mode =>
        /\ CallsOf("per_frame_function") = {}
        /\ CallsOf("per_second_function") = {}
        /\ CallsOf("per_minute_function") = {}
        /\ stopped_by # "timeout"
        /\ (pc # "scanning") => n_frame = source_frames
        /\ \A k \in DOMAIN detect_calls :
              detect_calls[k] = 1 \/ detect_calls[k] % frame_detection_interval = 0

C10_Witness ==
    /\ performance_mode /\ per_frame_function /\ per_second_function
    /\ per_minute_function /\ detection_timeout = 1
    /\ frame_detection_interval = 2 /\ frames_per_second = 1
    /\ pc = "loop_exit" /\ n_frame = 4
    /\ detect_calls = <<1, 2, 4>>

\* C11: a performance-mode scan that read at least one frame and was given
\* a video_complete_function ends by invoking that callback exactly once,
\* without raising.
C11_VideoCompleteInPerformanceMode ==
    (Finished /\ performance_mode /\ video_complete_function /\ n_frame >= 1) =>
        /\ pc = "done"
        /\ Cardinality(CallsOf("video_complete_function")) = 1

\* C17: outside performance mode the frame history is append-only and
\* gap-free: the step that processes frame n leaves both maps with exactly
\* the keys 1..n, and no step removes or replaces the entry of an earlier
\* frame.
C17_HistoryAppendOnly ==
    [][ ~performance_mode =>
          /\ \A k \in DOMAIN output_frames_dict :
                /\ k \in DOMAIN output_frames_dict'
                /\ output_frames_dict'[k] = output_frames_dict[k]
          /\ \A k \in DOMAIN output_frames_count_dict :
                /\ k \in DOMAIN output_frames_count_dict'
                /\ output_frames_count_dict'[k] = output_frames_count_dict[k]
          /\ (pc' = "scanning" /\ n_frame' # n_frame) =>
                /\ DOMAIN output_frames_dict' = 1..n_frame'
                /\ DOMAIN output_frames_count_dict' = 1..n_frame'
      ]_vars

C17_Witness ==
    /\ ~performance_mode /\ pc = "scanning" /\ n_frame = 3
    /\ DOMAIN output_frames_dict = 1..3
    /\ output_frames_dict[1] = <<Item("a")>>
    /\ output_frames_dict[2] = <<>>
    /\ output_frames_count_dict[3] # <<>>

\* Steps the scan still has to make at most: two per unread frame, the
\* exit from the loop and the code after the loop
ScanMeasure ==
    2 * (source_frames - n_frame)
      + (IF pc = "scanning" THEN 2 ELSE IF pc = "loop_exit" THEN 1 ELSE 0)

\* Every lookup of the end-of-video loop finds its key
HistoryReadable ==
    \A k \in 1..n_frame :
        k \in DOMAIN output_frames_dict /\ k \in DOMAIN output_frames_count_dict

\* Until the scan has ended, the step that is due can be taken (after the
\* loop: the callback is built from defined lookups, or the step that
\* skips or fails it is possible)
ScanCanStep ==
    ~Finished =>
        IF pc = "loop_exit"
        THEN (video_complete_function /\ HistoryReadable) \/ ENABLED Complete
        ELSE IF n_frame >= source_frames THEN ENABLED EndOfSource
        ELSE IF performance_mode THEN ENABLED PerformanceFrame
        ELSE IF TimeoutReached(n_frame + 1) THEN ENABLED TimeoutBreak
        ELSE ENABLED ProcessFrame

\* C18: a scan over a finite source terminates (until it has ended a step
\* is always possible, and every step lowers a non-negative measure) and is
\* a single forward pass: the frame index grows by exactly 1 per frame
\* read, only while scanning; the loop is left when the source is exhausted
\* or when the timeout count, tested on the frame just read before it is
\* processed, is reached; once left it is never re-entered and no frame is
\* read or processed.
C18_SingleForwardPass ==
    /\ [](ScanMeasure >= 0 /\ ScanCanStep)
    /\ [][ /\ ScanMeasure' < ScanMeasure
           /\ n_frame' \in {n_frame, n_frame + 1}
           /\ (n_frame' = n_frame + 1) =>
                 (pc = "scanning" /\ stopped_by = "none" /\ n_frame < source_frames)
           /\ (pc = "scanning" /\ pc' # "scanning") =>
                 (stopped_by = "none" /\ stopped_by' \in {"end_of_source", "timeout"})
           /\ (~performance_mode /\ n_frame' = n_frame + 1 /\ detection_timeout # 0
                 /\ detection_timeout_count' >= detection_timeout) =>
                 /\ stopped_by' = "timeout"
                 /\ pc' # "scanning"
           /\ (stopped_by' = "timeout" /\ stopped_by = "none") =>
                 /\ n_frame' = n_frame + 1
                 /\ output_frames_dict' = output_frames_dict
                 /\ detect_calls' = detect_calls
                 /\ calls' = calls
           /\ (pc # "scanning" \/ stopped_by # "none") =>
                 /\ pc' # "scanning"
                 /\ stopped_by' = stopped_by
                 /\ n_frame' = n_frame
                 /\ output_frames_dict' = output_frames_dict
                 /\ output_frames_count_dict' = output_frames_count_dict
                 /\ detect_calls' = detect_calls
         ]_vars

C18_Witness ==
    /\ pc = "done" /\ stopped_by = "timeout" /\ n_frame = 4
    /\ source_frames = 4 /\ DOMAIN output_frames_dict = 1..3

\* Intersection over union of two boxes from their geometry, compared
\* with t hundredths; an empty union counts as IoU 0
Larger(x, y) == IF x > y THEN x ELSE y
Smaller(x, y) == IF x < y THEN x ELSE y

InterArea(a, b) ==
    Larger(0, Smaller(a.xmax, b.xmax) - Larger(a.xmin, b.xmin))
      * Larger(0, Smaller(a.ymax, b.ymax) - Larger(a.ymin, b.ymin))

UnionArea(a, b) ==
    (a.xmax - a.xmin) * (a.ymax - a.ymin)
      + (b.xmax - b.xmin) * (b.ymax - b.ymin) - InterArea(a, b)

IoUAtLeast(a, b, t) ==
    IF UnionArea(a, b) = 0 THEN 0 >= t
    ELSE InterArea(a, b) * 100 >= t * UnionArea(a, b)

ClassesOf(bs) == IF bs = <<>> THEN {} ELSE DOMAIN bs[1].classes

\* C12: after do_nms(boxes, t) no two distinct boxes that both still have a
\* nonzero class-c score have IoU >= t, for every class c.
C12_NoOverlappingSurvivors ==
    ipc = "returned" =>
        \A c \in ClassesOf(boxes) : \A p, q \in DOMAIN boxes :
            (p # q /\ boxes[p].classes[c] # 0 /\ boxes[q].classes[c] # 0) =>
                ~IoUAtLeast(boxes[p], boxes[q], nms_thresh)

C12_Witness ==
    /\ ipc = "returned" /\ nms_thresh = 25 /\ Len(boxes) = 3
    /\ boxes_in[1].classes = <<80, 60>> /\ boxes_in[1].xmax = 10 /\ boxes_in[1].ymax = 10
    /\ boxes_in[2].classes = <<90, 0>> /\ boxes_in[2].ymax = 9
    /\ boxes_in[3].classes = <<60, 80>> /\ boxes_in[3].xmin = 6
    /\ boxes[1].classes = <<0, 0>>
    /\ boxes[2].classes = <<90, 0>>
    /\ boxes[3].classes = <<60, 80>>

\* C19: do_nms changes nothing but class scores and only by zeroing them:
\* the class-c score of box j is zeroed only when a box i that precedes j in
\* the descending class-c order still has a nonzero class-c score and
\* IoU(i, j) >= threshold; geometry, objectness and the scores of the other
\* classes are not touched by the sweep of class c.
C19_NmsOnlyZeroesScores ==
    ipc = "returned" =>
        /\ Len(boxes) = Len(boxes_in)
        /\ \A j \in DOMAIN boxes :
              /\ boxes[j].xmin = boxes_in[j].xmin
              /\ boxes[j].ymin = boxes_in[j].ymin
              /\ boxes[j].xmax = boxes_in[j].xmax
              /\ boxes[j].ymax = boxes_in[j].ymax
              /\ boxes[j].objness = boxes_in[j].objness
              /\ DOMAIN boxes[j].classes = DOMAIN boxes_in[j].classes
              /\ \A c \in DOMAIN boxes[j].classes :
                    \/ boxes[j].classes[c] = boxes_in[j].classes[c]
                    \/ /\ boxes[j].classes[c] = 0
                       /\ \E i \in DOMAIN boxes :
                             /\ i # j
                             /\ boxes[i].classes[c] # 0
                             /\ boxes_in[i].classes[c] >= boxes_in[j].classes[c]
                             /\ IoUAtLeast(boxes_in[i], boxes_in[j], nms_thresh)

C19_Witness ==
    /\ ipc = "returned" /\ nms_thresh = 45 /\ Len(boxes) = 2
    /\ boxes_in[1].classes = <<90, 0>> /\ boxes_in[2].classes = <<80, 60>>
    /\ boxes[2].classes = <<0, 60>>
    /\ boxes[1] = boxes_in[1]

\* C20: for every class c, a box whose class-c score is nonzero and
\* strictly greater than the class-c score of every box it overlaps with
\* IoU >= threshold keeps its score, and each of those overlapping boxes has
\* its class-c score zeroed.
C20_HighestOfGroupSurvives ==
    ipc = "returned" =>
        \A c \in ClassesOf(boxes_in) : \A p \in DOMAIN boxes_in :
            ( /\ boxes_in[p].classes[c] # 0
              /\ \A q \in DOMAIN boxes_in :
                    (q # p /\ IoUAtLeast(boxes_in[p], boxes_in[q], nms_thresh))
                        => boxes_in[q].classes[c] < boxes_in[p].classes[c] )
            => /\ boxes[p].classes[c] = boxes_in[p].classes[c]
               /\ \A q \in DOMAIN boxes_in :
                     (q # p /\ IoUAtLeast(boxes_in[p], boxes_in[q], nms_thresh))
                         => boxes[q].classes[c] = 0

\* Two boxes with IoU 0.9, threshold 0.45, class scores 0.9 and 0.8
C20_Witness ==
    /\ ipc = "returned" /\ nms_thresh = 45 /\ Len(boxes) = 2
    /\ InterArea(boxes_in[1], boxes_in[2]) * 10 = 9 * UnionArea(boxes_in[1], boxes_in[2])
    /\ boxes_in[1].classes[1] = 80 /\ boxes_in[2].classes[1] = 90
    /\ boxes[1].classes[1] = 0 /\ boxes[2].classes[1] = 90

\* The centre of a box with the fraction of each coordinate dropped
Centroid(b) ==
    LET Half(s) == IF s >= 0 THEN s \div 2 ELSE -((-s) \div 2)
    IN  << Half(b.xmin + b.xmax), Half(b.ymin + b.ymax) >>

SameGeometry(a, b) ==
    /\ a.xmin = b.xmin /\ a.ymin = b.ymin
    /\ a.xmax = b.xmax /\ a.ymax = b.ymax

\* C13: with a region of interest [xmin, xmax, ymin, ymax] the RoI filter
\* zeroes every class score of a box whose integer centroid has cx outside
\* [xmin, xmax) or cy outside [ymin, ymax), leaves every class score of every
\* other box unchanged, never changes geometry and removes no box.
C13_RoIFilter ==
    (ipc = "returned" /\ Len(region_of_interest) = 4) =>
        /\ Len(boxes) = Len(boxes_in)
        /\ \A i \in DOMAIN boxes :
              LET cx == Centroid(boxes_in[i])[1]
                  cy == Centroid(boxes_in[i])[2]
                  inside ==
                      /\ region_of_interest[1] <= cx /\ cx < region_of_interest[2]
                      /\ region_of_interest[3] <= cy /\ cy < region_of_interest[4]
              IN  /\ SameGeometry(boxes[i], boxes_in[i])
                  /\ boxes[i].objness = boxes_in[i].objness
                  /\ DOMAIN boxes[i].classes = DOMAIN boxes_in[i].classes
                  /\ \A c \in DOMAIN boxes[i].classes :
                        boxes[i].classes[c] =
                            IF inside THEN boxes_in[i].classes[c] ELSE 0

\* RoI [100, 200, 50, 150]: centroid (150, 100) keeps its scores, centroid
\* (250, 100) and centroid (200, 50) on the excluded end lose them
C13_Witness ==
    /\ ipc = "returned" /\ region_of_interest = <<100, 200, 50, 150>>
    /\ Len(boxes) = 3
    /\ Centroid(boxes_in[1]) = <<150, 100>> /\ boxes_in[1].classes = <<60, 80>>
    /\ Centroid(boxes_in[2]) = <<250, 100>> /\ boxes_in[2].classes = <<60, 80>>
    /\ Centroid(boxes_in[3]) = <<200, 50>> /\ boxes_in[3].classes = <<90, 0>>
    /\ boxes[1].classes = <<60, 80>>
    /\ boxes[2].classes = <<0, 0>>
    /\ boxes[3].classes = <<0, 0>>

\* The (box, class) pairs of the list with a class score above the threshold
Selected(bs, t) ==
    { p \in (DOMAIN bs) \X ClassesOf(bs) : bs[p[1]].classes[p[2]] > t }

\* The place of a pair in box order then class order
PlaceOf(p, S) ==
    1 + Cardinality({ q \in S : q[1] < p[1] \/ (q[1] = p[1] /\ q[2] < p[2]) })

\* C14: get_boxes returns three sequences of equal length with exactly one
\* entry for every (box, class) pair whose class score is strictly greater
\* than the threshold, in box order then class order; the entry carries the
\* box, the label of the class and the score times 100.  A box with no score
\* above the threshold has no entry, a box with two has two.
C14_GetBoxes ==
    ipc = "returned" =>
        LET S == Selected(boxes, thresh)
        IN  /\ Len(v_result.v_boxes) = Cardinality(S)
            /\ Len(v_result.v_labels) = Cardinality(S)
            /\ Len(v_result.v_scores) = Cardinality(S)
            /\ \A p \in S :
                  /\ v_result.v_boxes[PlaceOf(p, S)] = p[1]
                  /\ v_result.v_labels[PlaceOf(p, S)] = labels[p[2]]
                  /\ v_result.v_scores[PlaceOf(p, S)]
                        = boxes[p[1]].classes[p[2]] * 100

\* Threshold 0.6: a box with scores 0.6 and 0.8 gives one entry, a box with
\* 0 and 0 none, a box with 0.8 and 0.8 two entries for the same box
C14_Witness ==
    /\ ipc = "returned" /\ thresh = 60 /\ labels = <<"b", "a">>
    /\ Len(boxes) = 3
    /\ boxes[1].classes = <<60, 80>>
    /\ boxes[2].classes = <<0, 0>>
    /\ boxes[3].classes = <<80, 80>>
    /\ v_result.v_boxes = <<1, 3, 3>>
    /\ v_result.v_labels = <<"a", "b", "a">>
    /\ v_result.v_scores = <<8000, 8000, 8000>>

\* The thresholds a call asks for are both in [0, 1]
ThresholdsInRange(t) ==
    /\ 0 <= threads[t].minimum_percentage_probability
    /\ threads[t].minimum_percentage_probability <= 10000
    /\ 0 <= threads[t].nms_threshold
    /\ threads[t].nms_threshold <= 100

\* C15: a call whose objectness threshold or NMS threshold is outside [0, 1]
\* is rejected up front: it never gets past its entry, so the value is never
\* stored and nothing is decoded, filtered or suppressed with it.
C15_ThresholdsRejected ==
    \A t \in DOMAIN threads :
        ~ThresholdsInRange(t) => threads[t].pc = "start"

\* What a call returns when it runs alone with its own arguments
AloneOutputs(t) ==
    LET obj_thresh == threads[t].minimum_percentage_probability \div 100
        decoded == RoI(GatedBoxes(threads[t].yolo_results, obj_thresh),
                       threads[t].region_of_interest)
    IN  { OutputObjects(bs, get_boxes(bs, ModelLabels, obj_thresh)) :
            bs \in do_nms(decoded, threads[t].nms_threshold) }

\* C16: two calls running in parallel on the same detector do not
\* interfere: whatever the interleaving, a finished call has the result it
\* has when it runs alone with its own minimum_percentage_probability and
\* nms_threshold.
C16_NoInterference ==
    \A t \in DOMAIN threads :
        threads[t].pc = "done" =>
            threads[t].output_objects_array \in AloneOutputs(t)

\* A call that runs while the other one has not started is not disturbed
DetectAloneIsExact ==
    \A t, u \in DOMAIN threads :
        (t # u /\ threads[u].pc = "start" /\ threads[t].pc = "done") =>
            threads[t].output_objects_array \in AloneOutputs(t)

BoxArea(b) == (b.xmax - b.xmin) * (b.ymax - b.ymin)

\* C21 as stated: for any two boxes with the same xmin, ymin, xmax, ymax
\* bbox_iou returns 1.
C21_IdenticalIoUOne ==
    (ipc = "returned" /\ SameGeometry(boxes[1], boxes[2])) =>
        /\ v_result.den # 0
        /\ v_result.num = v_result.den

\* C21: for any two boxes with the same xmin, ymin, xmax, ymax and a
\* positive area bbox_iou returns 1; for two identical boxes of area 0 the
\* division raises and it returns 0.
C21_IdenticalIoU ==
    (ipc = "returned" /\ SameGeometry(boxes[1], boxes[2])) =>
        /\ v_result.den # 0
        /\ IF BoxArea(boxes[1]) > 0
           THEN v_result.num = v_result.den
           ELSE v_result.num = 0

C21_Witness ==
    /\ ipc = "returned"
    /\ SameGeometry(boxes[1], boxes[2])
    /\ BoxArea(boxes[1]) = 6
    /\ v_result.num = 6 /\ v_result.den = 6

\* C22: for boxes with xmin <= xmax and ymin <= ymax, zero-area ones
\* included, bbox_iou returns a number (the division never faults), and the
\* number is 0 whenever the rectangles do not overlap or their union area
\* is 0.
C22_IoUZeroNoFault ==
    ipc = "returned" =>
        /\ v_result.den # 0
        /\ (InterArea(boxes[1], boxes[2]) = 0 \/ UnionArea(boxes[1], boxes[2]) = 0)
              => v_result.num = 0

\* Two boxes of area 0: the union is 0 and the result is 0
C22_Witness ==
    /\ ipc = "returned"
    /\ BoxArea(boxes[1]) = 0 /\ BoxArea(boxes[2]) = 0
    /\ boxes[1].xmin = 1 /\ boxes[1].xmax = 3 /\ boxes[1].ymin = boxes[1].ymax
    /\ SameGeometry(boxes[1], boxes[2])
    /\ v_result.num = 0 /\ v_result.den # 0

\* C23: the RoI filter is idempotent: a second application leaves every
\* box with the class scores and geometry the first application left.
C23_RoIIdempotent ==
    ipc = "returned_again" => boxes = v_result

\* The first application zeroed a box, the second changed nothing
C23_Witness ==
    /\ ipc = "returned_again" /\ region_of_interest = <<100, 200, 50, 150>>
    /\ Len(boxes) = 2
    /\ Centroid(boxes_in[1]) = <<250, 100>> /\ boxes_in[1].classes = <<60, 80>>
    /\ Centroid(boxes_in[2]) = <<150, 100>> /\ boxes_in[2].classes = <<90, 0>>
    /\ v_result[1].classes = <<0, 0>>
    /\ boxes[1].classes = <<0, 0>> /\ boxes[2].classes = <<90, 0>>

\* C24: with a region of interest that is absent or has not exactly 4
\* coordinates the RoI filter returns without changing any class score or
\* any geometry.
C24_RoINoOp ==
    (ipc = "returned" /\ Len(region_of_interest) # 4) => boxes = boxes_in

\* A region of 3 coordinates and a box that a region [100, 200, 50, 150]
\* would zero
C24_Witness ==
    /\ ipc = "returned" /\ region_of_interest = <<100, 200, 50>>
    /\ Len(boxes) = 1
    /\ Centroid(boxes[1]) = <<250, 100>>
    /\ boxes_in[1].classes = <<60, 80>>
    /\ boxes[1].classes = <<60, 80>>

\* C25: decode_netout leaves the array it is given as it was, and a second
\* call with the same array, anchors and threshold returns the same list of
\* boxes.
C25_DecodeNoSideEffect ==
    /\ ipc \in {"decoded", "decoded_again", "corrected", "filtered"}
          => netout = netout_in
    /\ ipc = "decoded_again" => boxes = boxes_in

\* The cells << row, col, anchor >> of an array whose objectness after the
\* sigmoid is above t
CellsAbove(a, t) ==
    { k \in (DOMAIN a) \X (DOMAIN a[1]) \X (1..3) :
        Sigmoid(a[k[1]][k[2]][k[3]][5]) > t }

\* The place of a cell in row, column, anchor order
CellPlace(k, S) ==
    1 + Cardinality({ q \in S :
          \/ q[1] < k[1]
          \/ q[1] = k[1] /\ q[2] < k[2]
          \/ q[1] = k[1] /\ q[2] = k[2] /\ q[3] < k[3] })

\* C26: decode_netout returns at most grid_h * grid_w * 3 boxes: one for
\* each cell whose objectness after the sigmoid is strictly above the
\* threshold, in cell order, and none for another cell; every box has
\* objectness > threshold and class scores that are 0 or > threshold.
C26_DecodeGate ==
    ipc = "decoded" =>
        LET S == CellsAbove(netout_in, thresh)
        IN  /\ Len(boxes) = Cardinality(S)
            /\ Len(boxes) <= Len(netout_in) * Len(netout_in[1]) * 3
            /\ \A k \in S :
                  boxes[CellPlace(k, S)].objness
                      = Sigmoid(netout_in[k[1]][k[2]][k[3]][5])
            /\ \A i \in DOMAIN boxes :
                  /\ boxes[i].objness > thresh
                  /\ \A c \in DOMAIN boxes[i].classes :
                        boxes[i].classes[c] = 0 \/ boxes[i].classes[c] > thresh

\* Threshold 0.5 and cells of objectness 0.8, 0.5, 0.2, 0.8: two boxes
C26_Witness ==
    /\ ipc = "decoded" /\ thresh = 50
    /\ Len(netout_in) = 1
    /\ netout_in[1][1][1][5] = 139
    /\ netout_in[1][1][2][5] = 0
    /\ netout_in[1][1][3][5] = -139
    /\ netout_in[1][2][1][5] = 0
    /\ netout_in[1][2][2][5] = 0
    /\ netout_in[1][2][3][5] = 139
    /\ Len(boxes) = 2
    /\ boxes[1].objness = 80 /\ boxes[1].classes = <<64, 0>>
    /\ boxes[2].objness = 80

\* C28: after decode_netout and correct_yolo_boxes every box has
\* xmin <= xmax and ymin <= ymax in integer pixels, for image sizes >= 0,
\* and it still has after RoI and do_nms.
C28_BoxesOrdered ==
    ipc \in {"corrected", "filtered"} =>
        \A i \in DOMAIN boxes :
            /\ boxes[i].xmin <= boxes[i].xmax
            /\ boxes[i].ymin <= boxes[i].ymax

\* A box past the left edge, a box of height 0 and a filtered list
C28_Witness ==
    /\ ipc = "filtered"
    /\ Len(boxes) = 3
    /\ \E i \in DOMAIN boxes : boxes[i].xmin < 0 /\ boxes[i].xmax > 0
    /\ \E i \in DOMAIN boxes : boxes[i].ymin = boxes[i].ymax
    /\ \E i \in DOMAIN boxes : boxes[i].classes # boxes_in[i].classes

\* C27: whenever the number of labels differs from the number of class
\* scores of a box, get_boxes raises instead of returning entries.
C27_LabelMismatchRaises ==
    ( /\ ipc \in {"returned", "raised"}
      /\ boxes # <<>>
      /\ Len(labels) # Len(boxes[1].classes) ) => ipc = "raised"

\* C29: every detection dictionary returned by detectObjectsFromImage has
\* box_points with xmin >= 0 and ymin >= 0, also for a box that extends past
\* the left or top edge of the image.
C29_BoxPointsClamped ==
    \A t \in DOMAIN threads :
        threads[t].pc = "done" =>
            \A k \in DOMAIN threads[t].output_objects_array :
                /\ threads[t].output_objects_array[k].box_points[1] >= 0
                /\ threads[t].output_objects_array[k].box_points[2] >= 0

\* The place of a callback among the callbacks of one frame
CallRank(f) ==
    CASE f = "per_frame_function" -> 1
      [] f = "per_second_function" -> 2
      [] f = "per_minute_function" -> 3
      [] f = "video_complete_function" -> 4

\* The detection list a callback was handed for the frame it was called on
FrameListOf(c) ==
    CASE c.fn = "per_frame_function" -> c.args[2]
      [] c.fn = "video_complete_function" -> c.args[1][Len(c.args[1])]
      [] OTHER -> c.args[2][Len(c.args[2])]

\* C30: in a scan that is not in performance mode the callbacks of a frame
\* are called in the order per-frame, per-second, per-minute, after the
\* detection list and the count map of the frame are in the history, frame
\* after frame, and the end-of-scan callback is called after all of them.
C30_CallbackOrder ==
    ~performance_mode =>
        /\ \A i \in DOMAIN calls :
              /\ calls[i].at \in DOMAIN output_frames_dict
              /\ calls[i].at \in DOMAIN output_frames_count_dict
              /\ FrameListOf(calls[i]) = output_frames_dict[calls[i].at]
        /\ \A i \in 1..(Len(calls) - 1) :
              \/ calls[i].at < calls[i + 1].at
              \/ /\ calls[i].at = calls[i + 1].at
                 /\ CallRank(calls[i].fn) < CallRank(calls[i + 1].fn)

\* The three callbacks of frame 60 at 1 frame per second, and the
\* end-of-scan callback last
C30_Witness ==
    /\ ~performance_mode /\ frames_per_second = 1 /\ pc = "done"
    /\ Len(calls) > 3
    /\ calls[Len(calls)].fn = "video_complete_function"
    /\ \E i \in 1..(Len(calls) - 3) :
          /\ calls[i].fn = "per_frame_function"
          /\ calls[i].at = SecondsPerMinute
          /\ calls[i + 1].fn = "per_second_function"
          /\ calls[i + 1].at = SecondsPerMinute
          /\ calls[i + 2].fn = "per_minute_function"
          /\ calls[i + 2].at = SecondsPerMinute

=============================================================================
